---- MODULE Spec2Model ----
(***************************************************************************)
(* A model of TSCNS (src/tscns.h): a nanosecond clock derived from the CPU *)
(* timestamp counter, recalibrated against the system clock, whose         *)
(* parameters are published to readers through a seqlock.                  *)
(*                                                                         *)
(* Numbers.  int64_t values are plain integers; the values the model       *)
(* reaches stay far from the 64 bit limits.  The double ns_per_tsc_ is     *)
(* modelled as an exact rational (a record ip + fn/fd): the rounding of    *)
(* IEEE-754 arithmetic is outside the model.  param_seq_ is a uint32_t;    *)
(* the model never performs enough commits for it to wrap.                 *)
(*                                                                         *)
(* Environment.  rdtsc() returns a strictly increasing counter and         *)
(* rdsysns() the system clock; by how much each advances from one read to  *)
(* the next depends on the clocks' behaviour, fixed at the start:          *)
(*   "steady"   the counter by 1, the system clock by 1 ms;                *)
(*   "jittery"  the counter by 1 or 2, the system clock by 1 ms or by      *)
(*              10 ms (a clock jump);                                      *)
(*   "frozen"   the counter by 1 or 2, the system clock not at all.        *)
(***************************************************************************)
EXTENDS Integers, FiniteSets, Sequences, TLC

VARIABLES
    param_seq_,             \* std::atomic<uint32_t> param_seq_
    ns_per_tsc_,            \* double ns_per_tsc_
    base_tsc_,              \* int64_t base_tsc_
    base_ns_,               \* int64_t base_ns_
    calibrate_interval_ns_, \* int64_t calibrate_interval_ns_
    base_ns_err_,           \* int64_t base_ns_err_
    next_calibrate_tsc_,    \* int64_t next_calibrate_tsc_
    tsc_now,                \* the timestamp counter: the last value rdtsc() returned
    sys_now,                \* the system clock: the last value rdsysns() returned
    clock,                  \* how the counter and the system clock behave
    wpc,                    \* the calibrating thread's position
    w,                      \* the calibrating thread's locals
    rpc,                    \* each reading thread's position
    rd,                     \* each reading thread's locals
    committed,              \* history: the snapshots published so far
    hist,                   \* history: the calibrating thread's last rdns() call
    wpc2,                   \* the position of a second thread that calls calibrate
    w2,                     \* the locals of that second thread
    overlap                 \* history: two saveParam calls have overlapped

vars == <<param_seq_, ns_per_tsc_, base_tsc_, base_ns_, calibrate_interval_ns_,
          base_ns_err_, next_calibrate_tsc_, tsc_now, sys_now, clock,
          wpc, w, rpc, rd, committed, hist, wpc2, w2, overlap>>

\* a second thread that calls calibrate, waiting for the processor
other == <<wpc2, w2, overlap>>

object == <<param_seq_, ns_per_tsc_, base_tsc_, base_ns_, calibrate_interval_ns_,
            base_ns_err_, next_calibrate_tsc_>>

-----------------------------------------------------------------------------
(* Bounds of the model.                                                    *)

MaxTsc == 26
MaxSys == 20000000
\* the passes of a reader's loop are counted up to MaxPasses
MaxPasses == 2
\* the counter values explored under the fair scheduling of FairSpec
MaxFairTsc == 20
\* the counter values explored with two threads calling calibrate
MaxTwoTsc == 18

\* the reading threads.  They store to nothing that is shared, so what one
\* of several readers can observe is what a single reader can observe.
Readers == {"r1"}

Clocks == {"steady", "jittery", "frozen"}

\* the arguments init is called with
InitCalibrateArgs == {2000000}
CalibrateIntervalArgs == {6001000}

\* what reading an uninitialized int64_t can yield, besides whatever the
\* build happens to leave in its place
UninitValues == {0, 2000000000}

-----------------------------------------------------------------------------
(* Rational arithmetic for the double ns_per_tsc_.                         *)

RECURSIVE Gcd(_, _)
Gcd(a, b) == IF b = 0 THEN a ELSE Gcd(b, a % b)

\* ip + num/den (den > 0) in normal form: 0 <= fn < fd, fn/fd in lowest terms
RatNorm(ip, num, den) ==
    LET q == num \div den
        r == num % den
        g == Gcd(den, r)
    IN  [ip |-> ip + q, fn |-> r \div g, fd |-> den \div g]

RatZero == [ip |-> 0, fn |-> 0, fd |-> 1]

\* static_cast<double>(a) / b, for b > 0
RatDiv(a, b) == RatNorm(0, a, b)

RatPositive(r) == r.ip > 0 \/ (r.ip = 0 /\ r.fn > 0)

\* static_cast<int64_t>(d * r): the product truncated toward zero
RatMulTrunc(d, r) ==
    LET fl == d * r.ip + ((d * r.fn) \div r.fd)
        exact == (d * r.fn) % r.fd = 0
    IN  IF fl >= 0 \/ exact THEN fl ELSE fl + 1

\* r - k/d, for d > 0
RatSubFrac(r, k, d) ==
    RatNorm(r.ip - (k \div d), r.fn * d - (k % d) * r.fd, r.fd * d)

\* q * r <= x, for q >= 0
RatFits(q, r, x) == q * r.ip + ((q * r.fn + r.fd - 1) \div r.fd) <= x

\* static_cast<int64_t>(x / r), for x >= 0 and r >= 1
RatDivTrunc(x, r) ==
    CHOOSE q \in (x \div (r.ip + 1))..(x \div r.ip) :
        RatFits(q, r, x) /\ ~RatFits(q + 1, r, x)

-----------------------------------------------------------------------------
(* The counter and the system clock.                                       *)

\* by how much the counter advances from one read to the next
TscAdvance == IF clock = "steady" THEN {1} ELSE {1, 2}

\* by how much the system clock advances from one read to the next
SysAdvance ==
    CASE clock = "steady" -> {1000000}
      [] clock = "jittery" -> {1000000, 10000000}
      [] clock = "frozen" -> {0}

\* the values one rdtsc() can return after the counter read t
Rdtsc(t) == {t + d : d \in TscAdvance}

\* the values one rdsysns() can return after the clock read s
Rdsysns(s) == {s + e : e \in SysAdvance}

-----------------------------------------------------------------------------
(* syncTime: N = 3 (clock, counter) samples after a first counter sample.  *)

SyncN == 3

RECURSIVE SumTo(_, _, _)
SumTo(f, lo, hi) == IF hi < lo THEN 0 ELSE f[hi] + SumTo(f, lo, hi - 1)

\* a slip in the search: the pair (tsc[0], tsc[1]) is left out
RECURSIVE SyncBestFrom2(_, _)
SyncBestFrom2(tsc, i) ==
    IF i <= 2 THEN 2
    ELSE LET best == SyncBestFrom2(tsc, i - 1)
         IN  IF tsc[i] - tsc[i - 1] < tsc[best] - tsc[best - 1] THEN i ELSE best

\* the index of the adjacent pair with the smallest counter delta among
\* the pairs 1..i, the earliest one winning a tie
RECURSIVE SyncBest(_, _)
SyncBest(tsc, i) ==
    IF i = 1 THEN 1
    ELSE LET best == SyncBest(tsc, i - 1)
         IN  IF tsc[i] - tsc[i - 1] < tsc[best] - tsc[best - 1] THEN i ELSE best

\* the samples syncTime can take when the counter stands at t and the clock
\* at s: tsc[0], then ns[i], tsc[i] for i = 1..N
SyncSamples(t, s) ==
    { [tsc |-> [i \in 0..SyncN |-> t + SumTo(dt, 0, i)],
       ns |-> [i \in 1..SyncN |-> s + SumTo(ds, 1, i)]] :
        dt \in [0..SyncN -> TscAdvance], ds \in [1..SyncN -> SysAdvance] }

\* tsc_out, ns_out, where syncTime leaves the counter and the clock, and
\* its locals: the samples and best
SyncTime(t, s) ==
    { LET best == SyncBest(sm.tsc, SyncN)
      IN  [tsc_out |-> (sm.tsc[best] + sm.tsc[best - 1]) \div 2,
           ns_out |-> sm.ns[best],
           tsc_end |-> sm.tsc[SyncN],
           sys_end |-> sm.ns[SyncN],
           tsc |-> sm.tsc, ns |-> sm.ns, best |-> best] : sm \in SyncSamples(t, s) }

\* the locals and results of a thread's last syncTime call: none yet
NoSync == [valid |-> FALSE, tsc |-> <<>>, ns |-> <<>>, best |-> 0,
           tsc_out |-> 0, ns_out |-> 0]

\* the locals and results of the syncTime call that returned sy
SyncCall(sy) == [valid |-> TRUE, tsc |-> sy.tsc, ns |-> sy.ns, best |-> sy.best,
                 tsc_out |-> sy.tsc_out, ns_out |-> sy.ns_out]

-----------------------------------------------------------------------------
(* The state after construction: a TSCNS object with static storage        *)
(* (zero-initialized), no call in progress.                                *)

Fields == {"base_tsc", "base_ns", "ns_per_tsc"}

\* the calibrating thread's locals when it is in no call
WIdle ==
    [op |-> "none", inited |-> FALSE, seq0 |-> 0, due |-> FALSE,
     init_calibrate_ns |-> 0, calibrate_interval_ns |-> 0, expire_ns |-> 0,
     base_tsc |-> 0, base_ns |-> 0, delayed_tsc |-> 0, delayed_ns |-> 0,
     tsc |-> 0, ns |-> 0, raw_err |-> 0, ns_err |-> 0,
     a_base_tsc |-> 0, a_sys_ns |-> 0, a_err |-> 0, a_npt |-> RatZero,
     seq |-> 0, pending |-> {}, sync |-> NoSync]

\* a reading thread's locals when it is in no call
RIdle ==
    [tsc |-> 0, seq0 |-> 0, first_seq |-> 0, passes |-> 0,
     pending |-> {}, base_ns |-> 0, base_tsc |-> 0, ns_per_tsc |-> RatZero,
     inner |-> 0, ret |-> 0]

\* no rdns() call of the calibrating thread yet
NoHist == [valid |-> FALSE, tsc |-> 0, ret |-> 0, seq |-> 0]

Snapshot(bt, bn, npt) == [base_tsc |-> bt, base_ns |-> bn, ns_per_tsc |-> npt]

Init ==
    /\ param_seq_ = 0
    /\ ns_per_tsc_ = RatZero
    /\ base_tsc_ = 0
    /\ base_ns_ = 0
    /\ calibrate_interval_ns_ = 0
    /\ base_ns_err_ = 0
    /\ next_calibrate_tsc_ = 0
    /\ tsc_now = 0
    /\ sys_now = 0
    /\ clock = "steady"
    /\ wpc = "idle"
    /\ w = WIdle
    /\ rpc = [r \in Readers |-> "idle"]
    /\ rd = [r \in Readers |-> RIdle]
    /\ committed = {Snapshot(0, 0, RatZero)}
    /\ hist = NoHist
    /\ wpc2 = "idle"
    /\ w2 = WIdle
    /\ overlap = FALSE

-----------------------------------------------------------------------------
(* init                                                                    *)

\* a slip in the ratio: the second sample alone, not the difference
InitNsPerTscNoBase(base_tsc, base_ns, delayed_tsc, delayed_ns) ==
    RatDiv(delayed_ns, delayed_tsc)

\* static_cast<double>(delayed_ns - base_ns) / (delayed_tsc - base_tsc)
InitNsPerTsc(base_tsc, base_ns, delayed_tsc, delayed_ns) ==
    RatDiv(delayed_ns - base_ns, delayed_tsc - base_tsc)

\* init, up to the wait: store the interval, take the first synchronized
\* sample, compute the time the wait ends
InitCall ==
    /\ wpc = "idle"
    /\ ~w.inited
    /\ \E init_calibrate_ns \in InitCalibrateArgs,
          calibrate_interval_ns \in CalibrateIntervalArgs,
          sy \in SyncTime(tsc_now, sys_now) :
        /\ sy.tsc_end <= MaxTsc
        /\ sy.sys_end <= MaxSys
        /\ sy.ns_out + init_calibrate_ns <= MaxSys
        /\ calibrate_interval_ns_' = calibrate_interval_ns
        /\ tsc_now' = sy.tsc_end
        /\ sys_now' = sy.sys_end
        /\ w' = [WIdle EXCEPT !.op = "init", !.seq0 = param_seq_,
                              !.init_calibrate_ns = init_calibrate_ns,
                              !.calibrate_interval_ns = calibrate_interval_ns,
                              !.base_tsc = sy.tsc_out, !.base_ns = sy.ns_out,
                              !.expire_ns = sy.ns_out + init_calibrate_ns,
                              !.sync = SyncCall(sy)]
    /\ wpc' = "init_wait"
    /\ UNCHANGED <<param_seq_, ns_per_tsc_, base_tsc_, base_ns_, base_ns_err_,
                   next_calibrate_tsc_, clock, rpc, rd, committed, hist, other>>

\* a slip in the wait: the test of the loop is inverted
InitWaitOverInverted(now, expire_ns) == now < expire_ns

\* the wait loop is left: !(rdsysns() < expire_ns)
InitWaitOver(now, expire_ns) == ~(now < expire_ns)

\* one test of the wait loop: while (rdsysns() < expire_ns) yield
InitWait ==
    /\ wpc = "init_wait"
    /\ \E s \in Rdsysns(sys_now) :
        /\ s <= MaxSys
        /\ sys_now' = s
        /\ wpc' = IF InitWaitOver(s, w.expire_ns) THEN "init_sync" ELSE "init_wait"
    /\ UNCHANGED <<object, tsc_now, clock, w, rpc, rd, committed, hist, other>>

\* init, after the wait: the second synchronized sample, the ratio, and the
\* call saveParam(base_tsc, base_ns, 0, init_ns_per_tsc)
InitSync ==
    /\ wpc = "init_sync"
    /\ \E sy \in SyncTime(tsc_now, sys_now) :
        /\ sy.tsc_end <= MaxTsc
        /\ sy.sys_end <= MaxSys
        /\ tsc_now' = sy.tsc_end
        /\ sys_now' = sy.sys_end
        /\ w' = [w EXCEPT !.delayed_tsc = sy.tsc_out, !.delayed_ns = sy.ns_out,
                          !.a_base_tsc = w.base_tsc, !.a_sys_ns = w.base_ns,
                          !.a_err = 0, !.sync = SyncCall(sy),
                          !.a_npt = InitNsPerTsc(w.base_tsc, w.base_ns,
                                                 sy.tsc_out, sy.ns_out)]
    /\ wpc' = "save_err"
    /\ UNCHANGED <<object, clock, rpc, rd, committed, hist, other>>

-----------------------------------------------------------------------------
(* saveParam                                                               *)

\* a slip in the increment: the sequence moves by two
SeqIncrTwice(seq) == seq + 2

\* ++seq
SeqIncr(seq) == seq + 1

\* a slip in the next calibration: the 1000 ns are not taken off
NextCalibrateTscNoMargin(base_tsc, interval_ns, npt) ==
    base_tsc + RatDivTrunc(interval_ns, npt)

\* a slip in the next calibration: the interval is forgotten
NextCalibrateTscNoInterval(base_tsc, interval_ns, npt) == base_tsc

\* base_tsc + static_cast<int64_t>((calibrate_interval_ns_ - 1'000) / new_ns_per_tsc)
NextCalibrateTsc(base_tsc, interval_ns, npt) ==
    base_tsc + RatDivTrunc(interval_ns - 1000, npt)

\* base_ns_err_ and next_calibrate_tsc_ are stored before the sequence moves
SaveErr ==
    /\ wpc = "save_err"
    /\ base_ns_err_' = w.a_err
    /\ next_calibrate_tsc_' =
           NextCalibrateTsc(w.a_base_tsc, calibrate_interval_ns_, w.a_npt)
    /\ wpc' = "save_load"
    /\ UNCHANGED <<param_seq_, ns_per_tsc_, base_tsc_, base_ns_,
                   calibrate_interval_ns_, tsc_now, sys_now, clock, w, rpc, rd,
                   committed, hist, other>>

\* the positions of saveParam from its load of param_seq_ to its second store
InCommit == {"save_odd", "save_fields", "save_even"}

\* seq = param_seq_.load(relaxed)
SaveLoadSeq ==
    /\ wpc = "save_load"
    /\ w' = [w EXCEPT !.seq = param_seq_]
    /\ wpc' = "save_odd"
    /\ overlap' = (overlap \/ wpc2 \in InCommit)
    /\ UNCHANGED <<object, tsc_now, sys_now, clock, rpc, rd, committed, hist,
                   wpc2, w2>>

\* param_seq_.store(++seq, release)
SaveSeqOdd ==
    /\ wpc = "save_odd"
    /\ param_seq_' = SeqIncr(w.seq)
    /\ w' = [w EXCEPT !.seq = SeqIncr(w.seq), !.pending = Fields]
    /\ wpc' = "save_fields"
    /\ UNCHANGED <<ns_per_tsc_, base_tsc_, base_ns_, calibrate_interval_ns_,
                   base_ns_err_, next_calibrate_tsc_, tsc_now, sys_now, clock,
                   rpc, rd, committed, hist, other>>

\* the three plain stores between the fences, in the order the build chose
SaveField ==
    /\ wpc = "save_fields"
    /\ \E f \in w.pending :
        /\ base_tsc_' = IF f = "base_tsc" THEN w.a_base_tsc ELSE base_tsc_
        /\ base_ns_' = IF f = "base_ns" THEN w.a_sys_ns + w.a_err ELSE base_ns_
        /\ ns_per_tsc_' = IF f = "ns_per_tsc" THEN w.a_npt ELSE ns_per_tsc_
        /\ w' = [w EXCEPT !.pending = w.pending \ {f}]
        /\ wpc' = IF w.pending = {f} THEN "save_even" ELSE "save_fields"
    /\ UNCHANGED <<param_seq_, calibrate_interval_ns_, base_ns_err_,
                   next_calibrate_tsc_, tsc_now, sys_now, clock, rpc, rd,
                   committed, hist, other>>

\* param_seq_.store(++seq, release): the snapshot is published
SaveSeqEven ==
    /\ wpc = "save_even"
    /\ param_seq_' = SeqIncr(w.seq)
    /\ w' = [w EXCEPT !.seq = SeqIncr(w.seq)]
    /\ committed' = committed \cup {Snapshot(base_tsc_, base_ns_, ns_per_tsc_)}
    /\ wpc' = "return"
    /\ UNCHANGED <<ns_per_tsc_, base_tsc_, base_ns_, calibrate_interval_ns_,
                   base_ns_err_, next_calibrate_tsc_, tsc_now, sys_now, clock,
                   rpc, rd, hist, other>>

\* init or calibrate returns to its caller
WReturn ==
    /\ wpc = "return"
    /\ w' = [WIdle EXCEPT !.inited = TRUE]
    /\ wpc' = "idle"
    /\ UNCHANGED <<object, tsc_now, sys_now, clock, rpc, rd, committed, hist, other>>

-----------------------------------------------------------------------------
(* tsc2ns                                                                  *)

\* base_ns_ + static_cast<int64_t>((tsc - base_tsc_) * ns_per_tsc_): the value
\* the loop body computes into the ns it declares
Tsc2nsInner(tsc, bn, bt, npt) == bn + RatMulTrunc(tsc - bt, npt)

\* what "return ns" can yield.  The ns returned is the one declared before
\* the loop, which the ns declared in the loop body shadows and which is
\* never assigned: an uninitialized read.  A build can leave any value in
\* it, the value the loop computed among them.
Tsc2nsReturn(inner) == UninitValues \cup {inner}

\* a slip in the mask: the low bit is set, not cleared
SetLowBit(seq) == seq - (seq % 2) + 1

\* before_seq = param_seq_.load(acquire) & ~1
MaskLowBit(seq) == seq - (seq % 2)

-----------------------------------------------------------------------------
(* calibrate                                                               *)

ClampNs == 1000000

\* a slip in the clamp: the lower bound is forgotten
ClampUpperOnly(ns_err) == IF ns_err > ClampNs THEN ClampNs ELSE ns_err

\* if (ns_err > 1'000'000) ns_err = 1'000'000;
\* if (ns_err < -1'000'000) ns_err = -1'000'000;
Clamp(ns_err) ==
    IF ns_err > ClampNs THEN ClampNs
    ELSE IF ns_err < -ClampNs THEN -ClampNs
    ELSE ns_err

\* a slip in the coefficient: the error once, not twice
NewNsPerTscSingleErr(npt, ns_err, prev_err, dtsc) ==
    RatSubFrac(npt, ns_err - prev_err, dtsc)

\* ns_per_tsc_ * (1.0 - (ns_err + ns_err - base_ns_err_) / ((tsc - base_tsc_) * ns_per_tsc_)),
\* which is ns_per_tsc_ - (ns_err + ns_err - base_ns_err_) / (tsc - base_tsc_)
NewNsPerTsc(npt, ns_err, prev_err, dtsc) ==
    RatSubFrac(npt, ns_err + ns_err - prev_err, dtsc)

\* a slip in the test of the fast path: <= for <
CalibrateDueLate(tsc, next_tsc) == ~(tsc <= next_tsc)

\* the test of the fast path, negated: !(rdtsc() < next_calibrate_tsc_)
CalibrateDue(tsc, next_tsc) == ~(tsc < next_tsc)

\* the caller enters calibrate
CalCall ==
    /\ wpc = "idle"
    /\ w.inited
    /\ w' = [w EXCEPT !.op = "calibrate", !.seq0 = param_seq_]
    /\ wpc' = "cal_check"
    /\ UNCHANGED <<object, tsc_now, sys_now, clock, rpc, rd, committed, hist, other>>

\* if (rdtsc() < next_calibrate_tsc_) return;
CalCheck ==
    /\ wpc = "cal_check"
    /\ \E t \in Rdtsc(tsc_now) :
        /\ t <= MaxTsc
        /\ tsc_now' = t
        /\ w' = [w EXCEPT !.due = CalibrateDue(t, next_calibrate_tsc_)]
        /\ wpc' = IF CalibrateDue(t, next_calibrate_tsc_) THEN "cal_sync" ELSE "return"
    /\ UNCHANGED <<object, sys_now, clock, rpc, rd, committed, hist, other>>

\* syncTime(tsc, ns)
CalSync ==
    /\ wpc = "cal_sync"
    /\ \E sy \in SyncTime(tsc_now, sys_now) :
        /\ sy.tsc_end <= MaxTsc
        /\ sy.sys_end <= MaxSys
        /\ tsc_now' = sy.tsc_end
        /\ sys_now' = sy.sys_end
        /\ w' = [w EXCEPT !.tsc = sy.tsc_out, !.ns = sy.ns_out,
                          !.sync = SyncCall(sy)]
    /\ wpc' = "cal_err"
    /\ UNCHANGED <<object, clock, rpc, rd, committed, hist, other>>

\* ns_err = tsc2ns(tsc) - ns, clamped; the new ratio; and the call
\* saveParam(tsc, ns, ns_err, new_ns_per_tsc_).  The tsc2ns call is the
\* calibrating thread's own: it leaves its loop when it finds param_seq_ even.
CalErr ==
    /\ wpc = "cal_err"
    /\ MaskLowBit(param_seq_) = param_seq_
    /\ \E ret \in Tsc2nsReturn(Tsc2nsInner(w.tsc, base_ns_, base_tsc_, ns_per_tsc_)) :
        LET ns_err == Clamp(ret - w.ns)
        IN  w' = [w EXCEPT !.raw_err = ret - w.ns, !.ns_err = ns_err,
                           !.a_base_tsc = w.tsc, !.a_sys_ns = w.ns,
                           !.a_err = ns_err,
                           !.a_npt = NewNsPerTsc(ns_per_tsc_, ns_err, base_ns_err_,
                                                 w.tsc - base_tsc_)]
    /\ wpc' = "save_err"
    /\ UNCHANGED <<object, tsc_now, sys_now, clock, rpc, rd, committed, hist, other>>

-----------------------------------------------------------------------------
(* rdns and tsc2ns, called by a reading thread                             *)

\* rdns(): tsc2ns(rdtsc()).  A reading thread's rdtsc() returns the value
\* the counter shows now: in the model the counter moves at the calibrating
\* thread's reads.
RdnsCall(r) ==
    /\ rpc[r] = "idle"
    /\ rd' = [rd EXCEPT ![r] = [RIdle EXCEPT !.tsc = tsc_now, !.seq0 = param_seq_]]
    /\ rpc' = [rpc EXCEPT ![r] = "load_before"]
    /\ UNCHANGED <<object, tsc_now, sys_now, clock, wpc, w, committed, hist, other>>

\* before_seq = param_seq_.load(acquire) & ~1
RdLoadBefore(r) ==
    /\ rpc[r] = "load_before"
    /\ rd' = [rd EXCEPT ![r].first_seq = param_seq_,
                        ![r].passes = IF @ < MaxPasses THEN @ + 1 ELSE @,
                        ![r].pending = Fields]
    /\ rpc' = [rpc EXCEPT ![r] = "read_fields"]
    /\ UNCHANGED <<object, tsc_now, sys_now, clock, wpc, w, committed, hist, other>>

\* the three plain loads between the fences, in the order the build chose
RdField(r) ==
    /\ rpc[r] = "read_fields"
    /\ \E f \in rd[r].pending :
        /\ rd' = [rd EXCEPT ![r].pending = rd[r].pending \ {f},
                            ![r].base_tsc = IF f = "base_tsc" THEN base_tsc_ ELSE @,
                            ![r].base_ns = IF f = "base_ns" THEN base_ns_ ELSE @,
                            ![r].ns_per_tsc = IF f = "ns_per_tsc" THEN ns_per_tsc_ ELSE @]
        /\ rpc' = [rpc EXCEPT ![r] = IF rd[r].pending = {f} THEN "load_after"
                                     ELSE "read_fields"]
    /\ UNCHANGED <<object, tsc_now, sys_now, clock, wpc, w, committed, hist, other>>

\* after_seq = param_seq_.load(acquire); while (before_seq != after_seq);
\* return ns
RdLoadAfter(r) ==
    /\ rpc[r] = "load_after"
    /\ IF MaskLowBit(rd[r].first_seq) # param_seq_
       THEN /\ rpc' = [rpc EXCEPT ![r] = "load_before"]
            /\ rd' = rd
       ELSE LET inner == Tsc2nsInner(rd[r].tsc, rd[r].base_ns, rd[r].base_tsc,
                                     rd[r].ns_per_tsc)
            IN  /\ rpc' = [rpc EXCEPT ![r] = "done"]
                /\ \E ret \in Tsc2nsReturn(inner) :
                    rd' = [rd EXCEPT ![r].inner = inner, ![r].ret = ret]
    /\ UNCHANGED <<object, tsc_now, sys_now, clock, wpc, w, committed, hist, other>>

\* the caller takes the result
RdReturn(r) ==
    /\ rpc[r] = "done"
    /\ rpc' = [rpc EXCEPT ![r] = "idle"]
    /\ rd' = [rd EXCEPT ![r] = RIdle]
    /\ UNCHANGED <<object, tsc_now, sys_now, clock, wpc, w, committed, hist, other>>

-----------------------------------------------------------------------------

Next ==
    \/ InitCall
    \/ InitWait
    \/ InitSync
    \/ SaveErr
    \/ SaveLoadSeq
    \/ SaveSeqOdd
    \/ SaveField
    \/ SaveSeqEven
    \/ WReturn
    \/ CalCall
    \/ CalCheck
    \/ CalSync
    \/ CalErr
    \/ \E r \in Readers : RdnsCall(r)
    \/ \E r \in Readers : RdLoadBefore(r)
    \/ \E r \in Readers : RdField(r)
    \/ \E r \in Readers : RdLoadAfter(r)
    \/ \E r \in Readers : RdReturn(r)

Spec == Init /\ [][Next]_vars

\* the steps of a reading thread inside a call
ReaderStep(r) == RdLoadBefore(r) \/ RdField(r) \/ RdLoadAfter(r)

\* the steps of a commit between its two increments
CommitStep == SaveField \/ SaveSeqEven

\* Next while the counter is within MaxFairTsc
FairNext ==
    \/ InitCall /\ tsc_now' <= MaxFairTsc
    \/ InitWait
    \/ InitSync /\ tsc_now' <= MaxFairTsc
    \/ CalCall
    \/ CalCheck /\ tsc_now' <= MaxFairTsc
    \/ CalSync /\ tsc_now' <= MaxFairTsc
    \/ CalErr
    \/ SaveErr
    \/ SaveLoadSeq
    \/ SaveSeqOdd
    \/ SaveField
    \/ SaveSeqEven
    \/ WReturn
    \/ \E r \in Readers : RdnsCall(r)
    \/ \E r \in Readers : RdLoadBefore(r)
    \/ \E r \in Readers : RdField(r)
    \/ \E r \in Readers : RdLoadAfter(r)
    \/ \E r \in Readers : RdReturn(r)

\* the threads of Spec with the scheduling they get: a reader inside a call
\* keeps running, and so does the calibrating thread inside a commit
FairSpec ==
    /\ Init
    /\ [][FairNext]_vars
    /\ \A r \in Readers : WF_vars(ReaderStep(r))
    /\ WF_vars(CommitStep)

\* the calibrating thread alone, under every behaviour of the clocks
SeqInit ==
    /\ param_seq_ = 0
    /\ ns_per_tsc_ = RatZero
    /\ base_tsc_ = 0
    /\ base_ns_ = 0
    /\ calibrate_interval_ns_ = 0
    /\ base_ns_err_ = 0
    /\ next_calibrate_tsc_ = 0
    /\ tsc_now = 0
    /\ sys_now = 0
    /\ clock \in Clocks
    /\ wpc = "idle"
    /\ w = WIdle
    /\ rpc = [r \in Readers |-> "idle"]
    /\ rd = [r \in Readers |-> RIdle]
    /\ committed = {Snapshot(0, 0, RatZero)}
    /\ hist = NoHist
    /\ wpc2 = "idle"
    /\ w2 = WIdle
    /\ overlap = FALSE

SeqNext ==
    \/ InitCall
    \/ InitWait
    \/ InitSync
    \/ SaveErr
    \/ SaveLoadSeq
    \/ SaveSeqOdd
    \/ SaveField
    \/ SaveSeqEven
    \/ WReturn
    \/ CalCall
    \/ CalCheck
    \/ CalSync
    \/ CalErr

SeqSpec == SeqInit /\ [][SeqNext]_vars

-----------------------------------------------------------------------------
(* One thread that calibrates and reads, as the loop of tscns_test.cc      *)
(* does: a = rdns(); calibrate(); b = rdns().                              *)

\* rdns() called by the calibrating thread between its other calls: no
\* commit is in progress, so the loop of tsc2ns passes once
WRdns ==
    /\ wpc = "idle"
    /\ w.inited
    /\ MaskLowBit(param_seq_) = param_seq_
    /\ \E t \in Rdtsc(tsc_now) :
        /\ t <= MaxTsc
        /\ tsc_now' = t
        /\ \E ret \in Tsc2nsReturn(Tsc2nsInner(t, base_ns_, base_tsc_, ns_per_tsc_)) :
            hist' = [valid |-> TRUE, tsc |-> t, ret |-> ret, seq |-> param_seq_]
    /\ UNCHANGED <<object, sys_now, clock, wpc, w, rpc, rd, committed, other>>

TestNext ==
    \/ InitCall
    \/ InitWait
    \/ InitSync
    \/ SaveErr
    \/ SaveLoadSeq
    \/ SaveSeqOdd
    \/ SaveField
    \/ SaveSeqEven
    \/ WReturn
    \/ CalCall
    \/ CalCheck
    \/ CalSync
    \/ CalErr
    \/ WRdns

TestSpec == Init /\ [][TestNext]_vars

-----------------------------------------------------------------------------
(* init alone, under every behaviour of the clocks, the thread that runs   *)
(* it being scheduled again and again.                                     *)

InitNext ==
    \/ InitCall
    \/ InitWait
    \/ InitSync
    \/ SaveErr
    \/ SaveLoadSeq
    \/ SaveSeqOdd
    \/ SaveField
    \/ SaveSeqEven
    \/ WReturn

InitSpec == SeqInit /\ [][InitNext]_vars /\ WF_vars(InitNext)

-----------------------------------------------------------------------------
(* Two threads that call calibrate, against the single-writer rule of the  *)
(* class: the thread that init returned to, and a second one started after *)
(* that.  wpc and w are those of the thread that runs, wpc2 and w2 those   *)
(* of the thread that waits for the processor.                             *)

\* where a calibrating thread gives up the processor: between two calls and
\* at every step of saveParam
SwitchPoints ==
    {"idle", "save_err", "save_load", "save_odd", "save_fields", "save_even",
     "return"}

\* the processor passes from one calibrating thread to the other
Switch ==
    /\ w.inited
    /\ wpc \in SwitchPoints
    /\ wpc' = wpc2
    /\ w' = [w2 EXCEPT !.inited = TRUE]
    /\ wpc2' = wpc
    /\ w2' = w
    /\ UNCHANGED <<object, tsc_now, sys_now, clock, rpc, rd, committed, hist,
                   overlap>>

\* no reader is inside a call
ReadersIdle == \A r \in Readers : rpc[r] = "idle"

\* calibrate's lines 109-119 where tsc - base_tsc_ >= 1 and the new ratio is
\* at least 1 ns per tick
TwoCalErr ==
    /\ ReadersIdle /\ wpc = "cal_err" /\ w.tsc - base_tsc_ >= 1
    /\ CalErr
    /\ w'.a_npt.ip >= 1

\* The steps of the two threads and of the readers, while the counter is
\* within MaxTwoTsc.  A reader's call is explored as running with no step
\* of the calibrating threads in between (how its loads interleave with the
\* stores of a commit is explored in Spec).  A thread that samples after the
\* other has committed can find tsc - base_tsc_ zero or negative, and the
\* code then divides by zero or commits a ratio that is not positive; the
\* correction is explored where the model's arithmetic defines it:
\* tsc - base_tsc_ >= 1 and a new ratio of at least 1 ns per tick.
TwoWriterNext ==
    \/ InitCall /\ ReadersIdle /\ tsc_now' <= MaxTwoTsc
    \/ InitWait /\ ReadersIdle
    \/ InitSync /\ ReadersIdle /\ tsc_now' <= MaxTwoTsc
    \/ CalCall /\ ReadersIdle
    \/ CalCheck /\ ReadersIdle /\ tsc_now' <= MaxTwoTsc
    \/ CalSync /\ ReadersIdle /\ tsc_now' <= MaxTwoTsc
    \/ TwoCalErr
    \/ SaveErr /\ ReadersIdle
    \/ SaveLoadSeq /\ ReadersIdle
    \/ SaveSeqOdd /\ ReadersIdle
    \/ SaveField /\ ReadersIdle
    \/ SaveSeqEven /\ ReadersIdle
    \/ WReturn /\ ReadersIdle
    \/ Switch /\ ReadersIdle
    \/ \E r \in Readers : RdnsCall(r)
    \/ \E r \in Readers : RdLoadBefore(r)
    \/ \E r \in Readers : RdField(r)
    \/ \E r \in Readers : RdLoadAfter(r)
    \/ \E r \in Readers : RdReturn(r)

TwoWriterSpec == Init /\ [][TwoWriterNext]_vars

-----------------------------------------------------------------------------
(* The claims.                                                             *)

\* the linear mapping of a snapshot: base_ns + trunc((tsc - base_tsc) * ns_per_tsc)
Mapping(snap, tsc) == Tsc2nsInner(tsc, snap.base_ns, snap.base_tsc, snap.ns_per_tsc)

Even(n) == n % 2 = 0

\* C1: every value a reader's tsc2ns/rdns call returns is the mapping of one
\* committed snapshot applied to the call's tick, never a value made of
\* fields of different snapshots (or of no snapshot at all).
C1_ReturnFromOneSnapshot ==
    \A r \in Readers :
        rpc[r] = "done" =>
            \E snap \in committed : rd[r].ret = Mapping(snap, rd[r].tsc)

\* C2: a tsc2ns call that no commit overlaps (param_seq_ is even and the
\* same from the call to the return) returns the mapping of the current
\* snapshot applied to its tick, and rdns passes the counter value it has
\* just read.
C2_ReturnIsCurrentMapping ==
    [][\A r \in Readers :
        /\ (rpc[r] = "load_after" /\ rpc'[r] = "done"
                /\ Even(param_seq_) /\ rd[r].seq0 = param_seq_)
            => rd'[r].ret = Mapping(Snapshot(base_tsc_, base_ns_, ns_per_tsc_),
                                    rd[r].tsc)
        /\ (rpc[r] = "idle" /\ rpc'[r] = "load_before")
            => rd'[r].tsc = tsc_now']_vars

\* C3: recalibration never makes the clock go backwards: when rdns converts
\* tick t, calibrate then commits, and rdns converts a tick t' >= t, the
\* second result is not below the first.
C3_NoBackwardJumpAcrossCalibrate ==
    [][(hist.valid /\ hist' # hist
            /\ hist'.seq = hist.seq + 2 /\ hist.tsc <= hist'.tsc)
        => hist.ret <= hist'.ret]_vars

\* C4: under one snapshot with ns_per_tsc_ > 0, tsc2ns is monotone: for
\* ticks base_tsc_ <= tick1 <= tick2, tsc2ns(tick1) <= tsc2ns(tick2).
C4_MonotoneUnderOneSnapshot ==
    [][(hist.valid /\ hist' # hist
            /\ hist'.seq = hist.seq /\ RatPositive(ns_per_tsc_)
            /\ base_tsc_ <= hist.tsc /\ hist.tsc <= hist'.tsc)
        => hist.ret <= hist'.ret]_vars

\* what the seqlock does ensure of a reader: the three fields its last pass
\* read are those of one committed snapshot, and the value the loop body
\* computed is that snapshot's mapping
PassReadsOneSnapshot ==
    \A r \in Readers :
        rpc[r] = "done" =>
            /\ Snapshot(rd[r].base_tsc, rd[r].base_ns, rd[r].ns_per_tsc) \in committed
            /\ rd[r].inner = Mapping(Snapshot(rd[r].base_tsc, rd[r].base_ns,
                                              rd[r].ns_per_tsc), rd[r].tsc)

\* what the mapping itself ensures: under one snapshot with a positive
\* ratio the value the loop body computes is monotone in the tick
InnerMonotone ==
    \A t1, t2 \in base_tsc_..tsc_now :
        (RatPositive(ns_per_tsc_) /\ t1 <= t2) =>
            Tsc2nsInner(t1, base_ns_, base_tsc_, ns_per_tsc_)
                <= Tsc2nsInner(t2, base_ns_, base_tsc_, ns_per_tsc_)

Abs(n) == IF n < 0 THEN -n ELSE n

\* C5: calibrate called while the counter is below next_calibrate_tsc_ is a
\* no-op (it samples nothing and leaves param_seq_ and every field of the
\* object unchanged); called when the counter is at or above it, calibrate
\* performs exactly one commit.
C5_CalibrateNoOpOrOneCommit ==
    /\ [][/\ (wpc = "idle" /\ wpc' = "cal_check") => UNCHANGED <<object, sys_now>>
          /\ (wpc = "cal_check" /\ wpc' # "cal_check") =>
                IF tsc_now' < next_calibrate_tsc_
                THEN wpc' = "return" /\ UNCHANGED <<object, sys_now>>
                ELSE wpc' = "cal_sync"]_vars
    /\ [](wpc = "return" /\ w.op = "calibrate" =>
            param_seq_ = (IF w.due THEN w.seq0 + 2 ELSE w.seq0))

\* a calibrate call that returns as a no-op, after an earlier one committed
C5_Witness ==
    wpc = "return" /\ w.op = "calibrate" /\ ~w.due /\ param_seq_ = 4

\* C6: the error calibrate uses and stores is clamped to +/-1,000,000
\* whatever the difference between predicted and sampled time: base_ns_err_
\* is always within the clamp, and the numerator 2*error - previous error of
\* every ratio correction is within +/-3,000,000.
C6_ErrorClamped ==
    /\ Abs(base_ns_err_) <= ClampNs
    /\ (wpc = "save_err" /\ w.op = "calibrate") =>
        /\ Abs(w.a_err) <= ClampNs
        /\ Abs(w.a_err + w.a_err - base_ns_err_) <= 3 * ClampNs

\* a calibrate that sampled the system clock after a 10 ms jump (the sample
\* is at least 9 ms ahead of the prediction) and committed the clamped error
C6_Witness ==
    /\ wpc = "return" /\ w.op = "calibrate" /\ w.due
    /\ clock = "jittery"
    /\ w.raw_err <= -9000000
    /\ base_ns_err_ = -ClampNs

\* C7: when init returns the snapshot is committed: param_seq_ is even,
\* base_ns_err_ = 0, calibrate_interval_ns_ is the argument, base_tsc_ and
\* base_ns_ are the first synchronized sample, ns_per_tsc_ is
\* (ns2 - ns1) / (tsc2 - tsc1) of the two synchronized samples, and
\* ns2 - ns1 >= init_calibrate_ns (the system clock being non-decreasing).
C7_InitCommitsFirstSnapshot ==
    (wpc = "return" /\ w.op = "init") =>
        /\ Even(param_seq_)
        /\ base_ns_err_ = 0
        /\ calibrate_interval_ns_ = w.calibrate_interval_ns
        /\ base_tsc_ = w.base_tsc
        /\ base_ns_ = w.base_ns
        /\ ns_per_tsc_ = RatDiv(w.delayed_ns - w.base_ns, w.delayed_tsc - w.base_tsc)
        /\ w.delayed_ns - w.base_ns >= w.init_calibrate_ns
        /\ Snapshot(base_tsc_, base_ns_, ns_per_tsc_) \in committed

\* init returns with a ratio that is not a whole number of ns per tick
C7_Witness ==
    /\ wpc = "return" /\ w.op = "init"
    /\ ns_per_tsc_.fn # 0
    /\ w.base_tsc > 0 /\ w.base_ns > 0

\* C8: init terminates exactly when the system clock reaches the first
\* sample's ns + init_calibrate_ns: with a clock that advances init commits
\* and returns, and it leaves the wait only once the clock has reached that
\* value; with a clock frozen below it init stays in the wait for ever and
\* never commits (param_seq_ keeps its initial value).
C8_InitTerminatesIffClockAdvances ==
    /\ (clock # "frozen") => <>(wpc = "idle" /\ w.inited /\ param_seq_ = 2)
    /\ [](w.op = "init" /\ wpc # "init_wait" =>
            sys_now >= w.base_ns + w.init_calibrate_ns)
    /\ (clock = "frozen") =>
            [](param_seq_ = 0 /\ ~w.inited /\ wpc \in {"idle", "init_wait"})

\* init is in its wait, the clock short of the value it waits for
C8_Witness ==
    /\ wpc = "init_wait"
    /\ sys_now < w.expire_ns
    /\ sys_now > w.base_ns

C10_SeqOddExactlyInCommit ==
    /\ [](~Even(param_seq_) <=> wpc \in {"save_fields", "save_even"})
    /\ [][param_seq_' >= param_seq_]_vars
    /\ [](wpc = "return" /\ (w.op = "init" \/ w.due) => param_seq_ = w.seq0 + 2)

\* a second commit is between its two increments while a reader is reading
C10_Witness ==
    /\ param_seq_ = 3 /\ wpc = "save_fields" /\ w.pending # Fields
    /\ \E r \in Readers : rpc[r] = "read_fields"

\* C11 as stated: each of base_tsc_, base_ns_, ns_per_tsc_, base_ns_err_ and
\* next_calibrate_tsc_ is written only while param_seq_ is odd; none of them
\* changes while param_seq_ is even.
C11_AllFieldsWrittenWhileOdd ==
    [][Even(param_seq_) =>
        UNCHANGED <<base_tsc_, base_ns_, ns_per_tsc_, base_ns_err_,
                    next_calibrate_tsc_>>]_vars

\* C11 amended: the fields tsc2ns reads (base_tsc_, base_ns_, ns_per_tsc_)
\* are written only while param_seq_ is odd, between the two increments of
\* a commit; base_ns_err_ and next_calibrate_tsc_ are written by saveParam
\* before its first increment, while param_seq_ is still even.
C11_GuardedFieldsWrittenWhileOdd ==
    [][/\ Even(param_seq_) => UNCHANGED <<base_tsc_, base_ns_, ns_per_tsc_>>
       /\ <<base_tsc_, base_ns_, ns_per_tsc_>>' # <<base_tsc_, base_ns_, ns_per_tsc_>>
            => wpc = "save_fields"
       /\ <<base_ns_err_, next_calibrate_tsc_>>' # <<base_ns_err_, next_calibrate_tsc_>>
            => (Even(param_seq_) /\ param_seq_ = w.seq0 /\ wpc = "save_err")]_vars

\* a calibrate commit has stored a new base_ns_err_ and next_calibrate_tsc_,
\* param_seq_ is still even, the guarded fields still hold the old snapshot
C11_Witness ==
    /\ wpc = "save_load" /\ w.op = "calibrate"
    /\ Even(param_seq_)
    /\ base_ns_err_ = w.a_err /\ base_ns_err_ # 0
    /\ next_calibrate_tsc_ > w.a_base_tsc
    /\ base_tsc_ # w.a_base_tsc

\* the rational r times the integer d >= 0
RatTimes(r, d) == RatNorm(r.ip * d, r.fn * d, r.fd)

\* the rational r minus the integer k
RatMinusInt(r, k) == [r EXCEPT !.ip = @ - k]

\* C12: on every calibrate that commits, with e the clamped error, p the
\* base_ns_err_ of the previous commit and d = tsc - base_tsc_ against the
\* previous snapshot, the committed ratio times d is the previous ratio
\* times d minus (2e - p); the first calibrate after init uses p = 0.
C12_RatioCorrection ==
    /\ (wpc = "save_err" /\ w.op = "calibrate") =>
        /\ w.tsc - base_tsc_ > 0
        /\ RatTimes(w.a_npt, w.tsc - base_tsc_)
             = RatMinusInt(RatTimes(ns_per_tsc_, w.tsc - base_tsc_),
                           w.ns_err + w.ns_err - base_ns_err_)
        /\ w.a_err = w.ns_err
        /\ w.seq0 = 2 => base_ns_err_ = 0
    /\ (wpc = "return" /\ w.op = "calibrate" /\ w.due) => ns_per_tsc_ = w.a_npt

\* a calibrate after an earlier one that stored a non-zero error: p # 0,
\* e # p, and the corrected ratio is not a whole number
C12_Witness ==
    /\ wpc = "save_err" /\ w.op = "calibrate"
    /\ base_ns_err_ # 0
    /\ w.ns_err # base_ns_err_
    /\ w.a_npt.fn # 0
    /\ w.a_npt # ns_per_tsc_

\* the counter delta of the adjacent pair i of a syncTime call
SyncDelta(y, i) == y.tsc[i] - y.tsc[i - 1]

\* what C13 says of the samples and of the results, whichever pairs best is
\* chosen among: the counter and the clock are sampled in turn, ns_out is
\* ns[best], tsc_out is floor((tsc[best-1] + tsc[best]) / 2) and lies
\* between the two
SyncResults(y) ==
    /\ DOMAIN y.tsc = 0..SyncN /\ DOMAIN y.ns = 1..SyncN
    /\ \A i \in 1..SyncN : y.tsc[i - 1] <= y.tsc[i]
    /\ \A i \in 2..SyncN : y.ns[i - 1] <= y.ns[i]
    /\ y.tsc[SyncN] = tsc_now
    /\ y.ns_out = y.ns[y.best]
    /\ 2 * y.tsc_out <= y.tsc[y.best - 1] + y.tsc[y.best]
    /\ y.tsc[y.best - 1] + y.tsc[y.best] < 2 * y.tsc_out + 2
    /\ y.tsc[y.best - 1] <= y.tsc_out /\ y.tsc_out <= y.tsc[y.best]

\* C13 as stated: syncTime samples tsc[0], then N = 3 times ns[i], tsc[i];
\* best is the pair with the smallest counter delta among the pairs
\* (tsc[i-1], tsc[i]) for i = 2..N; ns_out = ns[best] and
\* tsc_out = floor((tsc[best-1] + tsc[best]) / 2), between the two.
C13_SyncTimeBestOfPairsFrom2 ==
    w.sync.valid =>
        /\ w.sync.best \in 2..SyncN
        /\ \A i \in 2..SyncN : SyncDelta(w.sync, w.sync.best) <= SyncDelta(w.sync, i)
        /\ SyncResults(w.sync)

\* C13 amended: the same, best being chosen among the pairs (tsc[i-1], tsc[i])
\* for i = 1..N, the pair (tsc[0], tsc[1]) included.
C13_SyncTimeBestOfAllPairs ==
    w.sync.valid =>
        /\ w.sync.best \in 1..SyncN
        /\ \A i \in 1..SyncN : SyncDelta(w.sync, w.sync.best) <= SyncDelta(w.sync, i)
        /\ SyncResults(w.sync)

\* a syncTime call whose first pair alone has the smallest delta: it
\* returns the first clock sample, not the last
C13_Witness ==
    /\ w.sync.valid
    /\ w.sync.best = 1
    /\ \A i \in 2..SyncN : SyncDelta(w.sync, 1) < SyncDelta(w.sync, i)
    /\ w.sync.ns_out < w.sync.ns[SyncN]

\* C14: every calibrate commit sets base_tsc_ to the sampled tsc and base_ns_
\* to the sampled ns plus the clamped error, the error being the old mapping
\* at the sampled tsc minus the sampled ns; so the new mapping at the new
\* base_tsc_ equals the old mapping there when the raw error is within the
\* clamp, and otherwise the old exceeds the new by raw error - clamped error.
C14_CommitContinuesOldMapping ==
    /\ (wpc = "save_err" /\ w.op = "calibrate") =>
        LET old == Mapping(Snapshot(base_tsc_, base_ns_, ns_per_tsc_), w.tsc)
            raw == old - w.ns
            new == w.a_sys_ns + w.a_err
        IN  /\ w.a_base_tsc = w.tsc
            /\ new = w.ns + Clamp(raw)
            /\ Abs(raw) <= ClampNs => new = old
            /\ old - new = raw - Clamp(raw)
    /\ (wpc = "return" /\ w.op = "calibrate" /\ w.due) =>
        /\ base_tsc_ = w.tsc
        /\ base_ns_ = w.ns + w.a_err

\* how far the calibrating thread is into its call
WRank ==
    CASE wpc = "idle" -> 0
      [] wpc \in {"init_wait", "cal_check"} -> 1
      [] wpc \in {"init_sync", "cal_sync"} -> 2
      [] wpc = "cal_err" -> 3
      [] wpc = "save_err" -> 4
      [] wpc = "save_load" -> 5
      [] wpc = "save_odd" -> 6
      [] wpc = "save_fields" -> 7 + Cardinality(Fields \ w.pending)
      [] wpc = "save_even" -> 10
      [] wpc = "return" -> 11

\* the steps of calibrate and saveParam that read no clock
WriterStep ==
    CalErr \/ SaveErr \/ SaveLoadSeq \/ SaveSeqOdd \/ SaveField \/ SaveSeqEven
        \/ WReturn

\* C16: the writer never waits for readers.  Whatever the readers do, the
\* next step of a calibrate or saveParam in progress is enabled, every step
\* the writer takes inside a call moves it forward (at most 11 steps to the
\* return; only init's wait repeats), no step of a reader changes the
\* object or the writer's locals, and the tsc2ns call calibrate makes finds
\* param_seq_ even, so it succeeds on its first pass.
C16_WriterNeverWaits ==
    /\ [](wpc = "cal_err" => (Even(param_seq_) /\ ENABLED CalErr))
    /\ [](wpc \in {"cal_err", "save_err", "save_load", "save_odd", "save_fields",
                   "save_even", "return"} => ENABLED WriterStep)
    /\ [][(<<wpc, w>>' # <<wpc, w>> /\ wpc # "return") => WRank' > WRank]_vars
    /\ [][(<<rpc, rd>>' # <<rpc, rd>>) => UNCHANGED <<object, wpc, w>>]_vars

\* calibrate is about to compute its error while a reader, made to retry
\* by the commit before, is in the second pass of its loop
C16_Witness ==
    /\ wpc = "cal_err"
    /\ param_seq_ = 4
    /\ \E r \in Readers : rpc[r] = "load_after" /\ rd[r].passes = 2

\* C17: ns_per_tsc_ stays strictly positive.  Every snapshot init or
\* calibrate commits has ns_per_tsc_ > 0, whatever the clock samples: at
\* every correction the counter has advanced (d >= 1) and the clamped
\* correction 2e - p, at most 3,000,000 in magnitude, is smaller than the
\* predicted nanoseconds d * ns_per_tsc_ elapsed since base_tsc_.
C17_NsPerTscPositive ==
    /\ \A snap \in committed \ {Snapshot(0, 0, RatZero)} :
            RatPositive(snap.ns_per_tsc)
    /\ w.inited => RatPositive(ns_per_tsc_)
    /\ (wpc = "save_err" /\ w.op = "calibrate") =>
        /\ w.tsc - base_tsc_ >= 1
        /\ Abs(w.a_err + w.a_err - base_ns_err_) <= 3 * ClampNs
        /\ Abs(w.a_err + w.a_err - base_ns_err_)
             < RatMulTrunc(w.tsc - base_tsc_, ns_per_tsc_)
        /\ RatPositive(w.a_npt)

\* a calibrate whose correction is the largest the clamp allows, 3,000,000,
\* commits a ratio that is smaller than the one before and still positive
C17_Witness ==
    /\ wpc = "return" /\ w.op = "calibrate" /\ w.due
    /\ w.a_err = ClampNs
    /\ ns_per_tsc_ = w.a_npt
    /\ RatTimes(w.a_npt, w.tsc) # RatTimes(RatZero, w.tsc)
    /\ \E snap \in committed :
        /\ snap.base_tsc < base_tsc_
        /\ RatTimes(snap.ns_per_tsc, w.tsc - snap.base_tsc)
             = RatMinusInt(RatTimes(w.a_npt, w.tsc - snap.base_tsc), -3 * ClampNs)

\* q * r <= x, for an integer q >= 0, a rational r and an integer x
RatTimesLeq(q, r, x) ==
    LET m == RatTimes(r, q) IN m.ip < x \/ (m.ip = x /\ m.fn = 0)

\* q = trunc(x / r), for a rational r > 0 and an integer x >= 0
IsTruncQuotient(q, x, r) ==
    q >= 0 /\ RatTimesLeq(q, r, x) /\ ~RatTimesLeq(q + 1, r, x)

\* C18: every commit leaves next_calibrate_tsc_ = base_tsc_ +
\* trunc((calibrate_interval_ns_ - 1000) / ns_per_tsc_) for the base_tsc_ and
\* ratio it commits; so the base_tsc of a commit made by calibrate exceeds
\* the previous commit's base_tsc_ by at least that many ticks, and the
\* divisor tsc - base_tsc_ of the correction is positive when that is >= 1.
C18_NextCalibrateTsc ==
    /\ ((w.inited /\ wpc \in {"idle", "cal_check", "cal_sync", "cal_err", "save_err"})
            \/ wpc = "return") =>
        IsTruncQuotient(next_calibrate_tsc_ - base_tsc_,
                        calibrate_interval_ns_ - 1000, ns_per_tsc_)
    /\ (wpc = "save_err" /\ w.op = "calibrate") =>
        /\ w.a_base_tsc - base_tsc_ >= next_calibrate_tsc_ - base_tsc_
        /\ next_calibrate_tsc_ - base_tsc_ >= 1 => w.tsc - base_tsc_ > 0

\* a calibrate, after an earlier one committed a ratio that is not a whole
\* number, is about to commit a base_tsc that lies beyond next_calibrate_tsc_
C18_Witness ==
    /\ wpc = "save_err" /\ w.op = "calibrate"
    /\ param_seq_ = 4
    /\ ns_per_tsc_.fn # 0
    /\ next_calibrate_tsc_ - base_tsc_ # 6
    /\ w.a_base_tsc > next_calibrate_tsc_

\* a tsc2ns call leaves its loop
Accepts(r) == rpc[r] = "load_after" /\ rpc'[r] = "done"

\* C19: a read is never stale beyond its own duration.  The value a
\* completed tsc2ns call returns is the mapping of the snapshot that is the
\* committed one at an instant between the call's first and last load of
\* param_seq_ (here: at its last load), and that snapshot is not older than
\* a commit that had completed when the call started.  Stated of the calls
\* that start once init has committed.
C19_ReturnFromCurrentSnapshot ==
    [][\A r \in Readers :
        (Accepts(r) /\ rd[r].seq0 >= 2) =>
            /\ Even(param_seq_)
            /\ param_seq_ >= rd[r].seq0
            /\ Snapshot(base_tsc_, base_ns_, ns_per_tsc_) \in committed
            /\ rd'[r].ret = Mapping(Snapshot(base_tsc_, base_ns_, ns_per_tsc_),
                                    rd[r].tsc)]_vars

\* what the loop does ensure: the fields the accepted pass read, and the
\* value the loop body computed from them, are those of the snapshot that
\* is committed and current at the call's last load of param_seq_
PassReadsCurrentSnapshot ==
    [][\A r \in Readers :
        Accepts(r) =>
            /\ Even(param_seq_)
            /\ param_seq_ >= rd[r].seq0
            /\ wpc \notin {"save_fields", "save_even"}
            /\ Snapshot(base_tsc_, base_ns_, ns_per_tsc_) \in committed
            /\ Snapshot(rd[r].base_tsc, rd[r].base_ns, rd[r].ns_per_tsc)
                 = Snapshot(base_tsc_, base_ns_, ns_per_tsc_)
            /\ rd'[r].inner = Mapping(Snapshot(base_tsc_, base_ns_, ns_per_tsc_),
                                      rd[r].tsc)]_vars

\* a thread is storing the guarded fields
Storing(pc) == pc \in {"save_fields", "save_even"}

\* C15: the commit path is not safe for two concurrent writers.  As long as
\* no two saveParam calls have overlapped, param_seq_ is odd exactly while a
\* thread is storing fields and every pass a reader accepts has read the
\* fields of one committed snapshot; the state that C15_Witness describes,
\* which two overlapping calls reach, has neither property.
C15_UnsafeOnlyByOverlap ==
    ~overlap =>
        /\ ~Even(param_seq_) <=> (Storing(wpc) \/ Storing(wpc2))
        /\ \A r \in Readers :
            rpc[r] = "done" =>
                Snapshot(rd[r].base_tsc, rd[r].base_ns, rd[r].ns_per_tsc)
                    \in committed

\* two calibrate calls overlap: param_seq_ is even while one thread is still
\* storing fields, and a reader has completed a pass with before = after,
\* having read base_tsc_ of that thread's commit and ns_per_tsc_ of the
\* other's
C15_Witness ==
    /\ Storing(wpc) /\ w.op = "calibrate" /\ w2.op = "calibrate"
    /\ Even(param_seq_)
    /\ w.a_base_tsc # w2.a_base_tsc /\ w.a_npt # w2.a_npt
    /\ \E r \in Readers :
        /\ rpc[r] = "done"
        /\ rd[r].first_seq = param_seq_
        /\ rd[r].base_tsc = w.a_base_tsc
        /\ rd[r].ns_per_tsc = w2.a_npt
        /\ Snapshot(rd[r].base_tsc, rd[r].base_ns, rd[r].ns_per_tsc)
                \notin committed

====
